---- MODULE Spec2Model ----
(***************************************************************************)
(* NBA draft and game simulator: the Streamlit draft app (app.py), the     *)
(* command line draft and the possession engine (nba_draft_sim.py).        *)
(*                                                                         *)
(* Numbers.  The source computes in floating point.  Here every career     *)
(* statistic and every rating is an integer number of thousandths, every   *)
(* probability an integer number of millionths; a product or quotient is   *)
(* rounded down to that grid.  Strings that the source formats and parses  *)
(* again (the "<name>_<stat>" keys of a stat update) are kept as the pair  *)
(* they encode: stat names hold no '_', so rsplit('_', 1) returns exactly  *)
(* the pair the key was formatted from.                                    *)
(*                                                                         *)
(* Players are the indexes of PLAYER_DB: two entries of the database are   *)
(* two objects even when every field of them is equal.                     *)
(*                                                                         *)
(* Lists of players.  The pool is a Python list that never holds an object *)
(* twice.  The web app and draft_team read it through random.sample,       *)
(* auto_pick through max(), where the order decides only between entries   *)
(* of equal fields.  The pool is therefore kept as the set of its entries, *)
(* and a list made from it (the candidates, a sample) is listed in         *)
(* database order: the order in which random.sample returns the options    *)
(* decides only which of them a select box shows first, and the user may   *)
(* select any of them.                                                     *)
(***************************************************************************)
EXTENDS Integers, Sequences, FiniteSets, TLC

\* Python's None where a player is expected (players are 1..Len(PLAYER_DB)).
None == 0

\* None where a position is expected.
NoPos == "None"

Range(s) == {s[i] : i \in DOMAIN s}

min(a, b) == IF a <= b THEN a ELSE b

max(a, b) == IF a >= b THEN a ELSE b

RECURSIVE SumSeq(_)
SumSeq(s) == IF s = <<>> THEN 0 ELSE s[1] + SumSeq(Tail(s))

\* [f(x) for x in s]
MapSeq(s, f(_)) == [i \in DOMAIN s |-> f(s[i])]

(***************************************************************************)
(* Data model and player database.                                         *)
(***************************************************************************)

clamp(x, lo, hi) == max(lo, min(hi, x))

\* val, lo, hi in thousandths of the statistic; the result in thousandths
\* of a rating point.
scale_to_99(val, lo, hi) ==
    IF hi = lo THEN 50000
    ELSE IF val <= lo THEN 0
    ELSE IF val >= hi THEN 99000
    ELSE (99000 * (val - lo)) \div (hi - lo)

\* The database, cut to twelve of its entries, in database order (the source
\* line of each is given; the statistics are in thousandths).  As in the
\* whole database, "Doug Christie" is entered twice.
PLAYER_DB == <<
    [name |-> "Kareem Abdul-Jabbar", pos_primary |-> "C", pos_secondary |-> <<"PF">>,   \* line 80
     ppg |-> 24600, rpg |-> 11200, apg |-> 3600, ts |-> 592, three_pct |-> 0, ft_pct |-> 721,
     obpm |-> 5700, dbpm |-> 2200, ws48 |-> 228, three_rate |-> 0, height_in |-> 86000],
    [name |-> "Tim Duncan", pos_primary |-> "PF", pos_secondary |-> <<"C">>,   \* line 84
     ppg |-> 19000, rpg |-> 10800, apg |-> 3000, ts |-> 551, three_pct |-> 179, ft_pct |-> 696,
     obpm |-> 2900, dbpm |-> 3500, ws48 |-> 209, three_rate |-> 20, height_in |-> 83000],
    [name |-> "Stephen Curry", pos_primary |-> "PG", pos_secondary |-> <<"SG">>,   \* line 87
     ppg |-> 24700, rpg |-> 4700, apg |-> 6400, ts |-> 628, three_pct |-> 428, ft_pct |-> 910,
     obpm |-> 7700, dbpm |-> 800, ws48 |-> 212, three_rate |-> 550, height_in |-> 74000],
    [name |-> "Kevin Durant", pos_primary |-> "SF", pos_secondary |-> <<"PF">>,   \* line 88
     ppg |-> 27300, rpg |-> 7100, apg |-> 4300, ts |-> 635, three_pct |-> 388, ft_pct |-> 886,
     obpm |-> 5700, dbpm |-> 1800, ws48 |-> 214, three_rate |-> 360, height_in |-> 82000],
    [name |-> "James Harden", pos_primary |-> "SG", pos_secondary |-> <<"PG">>,   \* line 103
     ppg |-> 24600, rpg |-> 5600, apg |-> 7100, ts |-> 610, three_pct |-> 366, ft_pct |-> 860,
     obpm |-> 5700, dbpm |-> 700, ws48 |-> 222, three_rate |-> 500, height_in |-> 77000],
    [name |-> "Dikembe Mutombo", pos_primary |-> "C", pos_secondary |-> <<"PF">>,   \* line 122
     ppg |-> 9800, rpg |-> 10300, apg |-> 900, ts |-> 523, three_pct |-> 0, ft_pct |-> 685,
     obpm |-> -400, dbpm |-> 3000, ws48 |-> 147, three_rate |-> 0, height_in |-> 85000],
    [name |-> "Thabo Sefolosha", pos_primary |-> "SG", pos_secondary |-> <<"SF">>,   \* line 133
     ppg |-> 5900, rpg |-> 3900, apg |-> 1500, ts |-> 552, three_pct |-> 353, ft_pct |-> 747,
     obpm |-> 200, dbpm |-> 1700, ws48 |-> 87, three_rate |-> 300, height_in |-> 79000],
    [name |-> "Doug Christie", pos_primary |-> "SG", pos_secondary |-> <<"SF">>,   \* line 148
     ppg |-> 11200, rpg |-> 4100, apg |-> 3600, ts |-> 531, three_pct |-> 355, ft_pct |-> 788,
     obpm |-> 1400, dbpm |-> 1900, ws48 |-> 109, three_rate |-> 250, height_in |-> 77000],
    [name |-> "Doug Christie", pos_primary |-> "SG", pos_secondary |-> <<"SF">>,   \* line 162
     ppg |-> 11200, rpg |-> 4100, apg |-> 3600, ts |-> 531, three_pct |-> 355, ft_pct |-> 788,
     obpm |-> 1400, dbpm |-> 1900, ws48 |-> 109, three_rate |-> 250, height_in |-> 77000],
    [name |-> "Reggie Evans", pos_primary |-> "PF", pos_secondary |-> <<"C">>,   \* line 173
     ppg |-> 4100, rpg |-> 7100, apg |-> 400, ts |-> 510, three_pct |-> 0, ft_pct |-> 540,
     obpm |-> -1600, dbpm |-> 2300, ws48 |-> 71, three_rate |-> 0, height_in |-> 80000],
    [name |-> "Ish Smith", pos_primary |-> "PG", pos_secondary |-> <<"SG">>,   \* line 174
     ppg |-> 7300, rpg |-> 2400, apg |-> 3800, ts |-> 502, three_pct |-> 310, ft_pct |-> 725,
     obpm |-> 200, dbpm |-> 100, ws48 |-> 85, three_rate |-> 250, height_in |-> 72000],
    [name |-> "Isaiah Joe", pos_primary |-> "SG", pos_secondary |-> <<"PG">>,   \* line 180
     ppg |-> 6500, rpg |-> 1800, apg |-> 1200, ts |-> 598, three_pct |-> 407, ft_pct |-> 860,
     obpm |-> -400, dbpm |-> 200, ws48 |-> 97, three_rate |-> 660, height_in |-> 75000] >>

Players == DOMAIN PLAYER_DB

build_player_ratings(p) ==
    [finishing  |-> (scale_to_99(p.ts, 500, 650) * 7) \div 10
                    + (scale_to_99(p.ppg, 12000, 32000) * 3) \div 10,
     three      |-> (scale_to_99(p.three_pct, 280, 440) * 8) \div 10
                    + (scale_to_99(p.three_rate, 20, 550) * 2) \div 10,
     mid        |-> (scale_to_99(p.ts, 520, 600) + scale_to_99(p.ppg, 12000, 30000)) \div 2,
     ft         |-> scale_to_99(p.ft_pct, 600, 920),
     playmaking |-> (scale_to_99(p.apg, 2000, 11500) * 7) \div 10
                    + (scale_to_99(p.obpm, 0, 10500) * 3) \div 10,
     per_def    |-> (scale_to_99(p.dbpm, 0, 4800) * 7) \div 10
                    + (scale_to_99(p.ws48, 100, 260) * 3) \div 10,
     int_def    |-> (scale_to_99(p.dbpm, 0, 4800) * 6) \div 10
                    + (scale_to_99(p.rpg, 3500, 13000) * 4) \div 10,
     rebounding |-> (scale_to_99(p.rpg, 3500, 13000) * 7) \div 10
                    + (scale_to_99(p.height_in, 72000, 86000) * 3) \div 10,
     athletic   |-> (scale_to_99(p.ws48, 100, 260) + scale_to_99(p.ts, 500, 650)) \div 2,
     usage      |-> clamp(250 + ((p.ppg - 15000) * 15) \div 1000, 100, 400),
     three_tendency |-> clamp(p.three_rate, 0, 600)]

\* for p in PLAYER_DB: p.ratings = build_player_ratings(p)
ratings == [i \in Players |-> build_player_ratings(PLAYER_DB[i])]

POSITIONS == <<"PG", "SG", "SF", "PF", "C">>

\* {pos: None for pos in POSITIONS}
EmptyLineup == [pos \in Range(POSITIONS) |-> None]

name_of(p) == PLAYER_DB[p].name

\* p.pos_primary == pos or pos in p.pos_secondary
list_by_position(pos, pl) ==
    SelectSeq([i \in Players |-> i],
              LAMBDA p : /\ p \in pl
                         /\ \/ PLAYER_DB[p].pos_primary = pos
                            \/ pos \in Range(PLAYER_DB[p].pos_secondary))

\* In double rating points (thousandths), so that 0.5*rebounding is exact.
overall_score(p) ==
    LET r == ratings[p]
    IN  2 * (r.finishing + r.three + r.mid + r.playmaking + r.per_def + r.int_def)
        + r.rebounding

(***************************************************************************)
(* Bounds of the model.                                                    *)
(***************************************************************************)

\* The user changes a select box (position or player) at most
\* MaxSelections times.
MaxSelections == 1

\* "Auto-Pick (Best)" is clicked at most MaxAutoPicks times.
MaxAutoPicks == 1

(***************************************************************************)
(* State.  st.session_state of app.py: pool, team_a, team_b, draft_round,  *)
(* draft_index, history, the cached option lists (opts, keyed by round,    *)
(* index, team and position) and the two select boxes (draft_pos,          *)
(* draft_player).  The command line program keeps pool, team_a and team_b  *)
(* as locals of its main block.                                            *)
(***************************************************************************)
VARIABLES
    app,          \* which program runs: "web" (app.py) or "cli" (__main__)
    pc,           \* where the program is
    pool,         \* the players still available
    team_a,       \* pos -> player or None
    team_b,
    draft_round,
    draft_index,
    history,      \* stack of <<team, pos, player>>
    opts,         \* cached option lists: <<round, index, team, pos>> -> list
    draft_pos,    \* value of the "Choose position" select box
    draft_player, \* value of the "Pick player" select box
    pos_options,  \* options the position box was last drawn with
    player_options, \* options the player box was last drawn with
    pick,         \* the text last typed at "Pick your <pos>: " (draft_team)
    sim_call,     \* <<arguments>> of the running simulate_game call, else <<>>
    selections,   \* select box changes so far (bounded by MaxSelections)
    autos,        \* Auto-Pick clicks so far (bounded by MaxAutoPicks)
    rng,          \* state of the generator of module random
    game,         \* <<locals>> of the running simulate_game call, else <<>>
    results       \* what the simulate_game calls so far returned

vars == <<app, pc, pool, team_a, team_b, draft_round, draft_index, history,
          opts, draft_pos, draft_player, pos_options, player_options, pick,
          sim_call, selections, autos, rng, game, results>>

\* what the draft programs keep
dvars == <<app, pc, pool, team_a, team_b, draft_round, draft_index, history,
           opts, draft_pos, draft_player, pos_options, player_options, pick,
           selections, autos>>

\* what the possession engine keeps
gvars == <<rng, game, results>>

\* the two select boxes
widgets == <<draft_pos, draft_player, pos_options, player_options>>

NoOpts == [k \in {} |-> <<>>]

\* seq without the entries at the indexes outside S, order kept
SubList(seq, S) ==
    LET F[i \in 0..Len(seq)] ==
            IF i = 0 THEN <<>>
            ELSE IF i \in S THEN Append(F[i - 1], seq[i]) ELSE F[i - 1]
    IN  F[Len(seq)]

\* random.sample(population, k): any k entries of the population.
sample(population, k) ==
    {SubList(population, S) :
        S \in {T \in SUBSET DOMAIN population : Cardinality(T) = k}}

(***************************************************************************)
(* app.py: snake draft logic.                                              *)
(***************************************************************************)

\* every round in the order A then B
current_team_name_unflipped == IF draft_index = 0 THEN "Team A" ELSE "Team B"

current_team_name ==
    IF draft_round % 2 = 1
    THEN (IF draft_index = 0 THEN "Team A" ELSE "Team B")
    ELSE (IF draft_index = 0 THEN "Team B" ELSE "Team A")

team_dict(name) == IF name = "Team A" THEN team_a ELSE team_b

\* every position offered, filled or not
every_position(name) == POSITIONS

unfilled_positions(name) ==
    SelectSeq(POSITIONS, LAMBDA pos : team_dict(name)[pos] = None)

\* cands of the draft UI for a position
cands(pos) == list_by_position(pos, pool)

opt_key(pos) == <<draft_round, draft_index, current_team_name, pos>>

\* options of the "Pick player" box: shown if shown else cands
options(pos) == IF opts[opt_key(pos)] # <<>> THEN opts[opt_key(pos)] ELSE cands(pos)

\* the pointer after a pick: <<draft_round, draft_index>>
advance_pointer ==
    IF draft_index = 0 THEN <<draft_round, 1>> ELSE <<draft_round + 1, 0>>

\* the pointer after an undo that leaves the round alone
step_pointer_back_same_round(r, idx) == <<r, 1 - idx>>

\* the pointer after an undo at <<r, idx>>
step_pointer_back(r, idx) ==
    IF idx = 1 THEN <<r, 0>> ELSE <<max(1, r - 1), 1>>

\* team_dict(team_name)[pos] = value
set_slot(team_name, pos, value) ==
    /\ team_a' = IF team_name = "Team A" THEN [team_a EXCEPT ![pos] = value] ELSE team_a
    /\ team_b' = IF team_name = "Team A" THEN team_b ELSE [team_b EXCEPT ![pos] = value]

make_pick(team_name, pos, player) ==
    /\ set_slot(team_name, pos, player)
    /\ pool' = {p \in pool : name_of(p) # name_of(player)}
    /\ history' = Append(history, <<team_name, pos, player>>)
    /\ draft_round' = advance_pointer[1]
    /\ draft_index' = advance_pointer[2]
    /\ opts' = NoOpts

\* what make_pick and undo_last read and write in st.session_state
draft_state ==
    [team_a |-> team_a, team_b |-> team_b, pool |-> pool,
     draft_round |-> draft_round, draft_index |-> draft_index,
     history |-> history, opts |-> opts]

\* undo_last() called in state st: the state it leaves
undo_last(st) ==
    IF st.history = <<>>
    THEN st
    ELSE LET last == st.history[Len(st.history)]
             ptr == step_pointer_back(st.draft_round, st.draft_index)
         IN  [team_a |-> IF last[1] = "Team A"
                         THEN [st.team_a EXCEPT ![last[2]] = None] ELSE st.team_a,
              team_b |-> IF last[1] = "Team A"
                         THEN st.team_b ELSE [st.team_b EXCEPT ![last[2]] = None],
              pool |-> st.pool \cup {last[3]},
              draft_round |-> ptr[1],
              draft_index |-> ptr[2],
              history |-> SubSeq(st.history, 1, Len(st.history) - 1),
              opts |-> NoOpts]

\* st.session_state is left as st
leaves(st) ==
    /\ team_a' = st.team_a
    /\ team_b' = st.team_b
    /\ pool' = st.pool
    /\ draft_round' = st.draft_round
    /\ draft_index' = st.draft_index
    /\ history' = st.history
    /\ opts' = st.opts

\* reset_all without _clear_pick_options_cache()
reset_all_keeping_cache ==
    /\ pool' = Players
    /\ team_a' = EmptyLineup
    /\ team_b' = EmptyLineup
    /\ draft_round' = 1
    /\ draft_index' = 0
    /\ history' = <<>>
    /\ opts' = opts

reset_all ==
    /\ pool' = Players
    /\ team_a' = EmptyLineup
    /\ team_b' = EmptyLineup
    /\ draft_round' = 1
    /\ draft_index' = 0
    /\ history' = <<>>
    /\ opts' = NoOpts

\* all(team_a.values()) alone
ready_team_a == \A pos \in Range(POSITIONS) : team_a[pos] # None

\* all(team_a.values()) and all(team_b.values())
ready ==
    /\ \A pos \in Range(POSITIONS) : team_a[pos] # None
    /\ \A pos \in Range(POSITIONS) : team_b[pos] # None

(***************************************************************************)
(* app.py: one script run per user event.  A handler that ends in _rerun() *)
(* leaves pc = "run"; the run that follows (Render) draws the page again.  *)
(*                                                                         *)
(* st.selectbox(options=..., key=...) returns one of its options.  The box *)
(* keeps the choice of the last run (as the index of the option) while it  *)
(* is drawn with the same list of option labels; drawn with another list   *)
(* it is a new box and returns the first option (None with no option).     *)
(* A box that a complete run does not draw loses its state.                *)
(***************************************************************************)

\* player_label(p): made of the fields of the entry only
player_label(p) == PLAYER_DB[p]

\* the label of a position is the position
pos_label(pos) == pos

\* the index of x in seq, 0 when x is not in it
index_of(seq, x) ==
    IF x \in Range(seq) THEN CHOOSE i \in DOMAIN seq : seq[i] = x ELSE 0

\* The index of the option a select box returns (0: None), drawn with the
\* option labels labels, when it was last drawn with prev_labels and
\* returned the option of index prev_index.
selectbox(labels, prev_labels, prev_index) ==
    IF labels = <<>> THEN 0
    ELSE IF labels = prev_labels /\ prev_index \in DOMAIN labels THEN prev_index
    ELSE 1

\* the option of index i, none for index 0
option_at(opt, i, none) == IF i = 0 THEN none ELSE opt[i]

\* The draft panel is drawn for the team on the clock with asked_pos and
\* asked_player the values the browser sends for the two boxes: the option
\* list of the pick is sampled unless it is cached, and the player box is
\* drawn over it.
draw_panel(asked_pos, asked_player) ==
    LET positions_remaining == unfilled_positions(current_team_name)
        pos_choice == option_at(positions_remaining,
                                selectbox(MapSeq(positions_remaining, pos_label),
                                          MapSeq(pos_options, pos_label),
                                          index_of(pos_options, asked_pos)),
                                NoPos)
        k == min(5, Len(cands(pos_choice)))
    IN  /\ draft_pos' = pos_choice
        /\ pos_options' = positions_remaining
        /\ \E shown \in IF opt_key(pos_choice) \in DOMAIN opts
                        THEN {opts[opt_key(pos_choice)]}
                        ELSE sample(cands(pos_choice), k) :
            LET player_opts == IF shown # <<>> THEN shown ELSE cands(pos_choice)
            IN  /\ opts' = (opt_key(pos_choice) :> shown) @@ opts
                /\ player_options' = player_opts
                /\ draft_player' =
                        option_at(player_opts,
                                  selectbox(MapSeq(player_opts, player_label),
                                            MapSeq(player_options, player_label),
                                            index_of(player_options, asked_player)),
                                  None)

\* A script run with no button pressed.  With the draft over the panel is
\* not drawn.
Render ==
    /\ app = "web" /\ pc = "run"
    /\ pc' = "idle"
    /\ IF draft_round <= 5
       THEN draw_panel(draft_pos, draft_player)
       ELSE /\ draft_pos' = NoPos
            /\ draft_player' = None
            /\ pos_options' = <<>>
            /\ player_options' = <<>>
            /\ UNCHANGED opts
    /\ UNCHANGED <<app, pool, team_a, team_b, draft_round, draft_index, history,
                   sim_call, selections, autos>>
    /\ UNCHANGED <<pick, gvars>>

\* The user selects another position: a script run with the new value.
SelectPos ==
    /\ app = "web" /\ pc = "idle" /\ draft_round <= 5
    /\ selections < MaxSelections
    /\ selections' = selections + 1
    /\ \E pos \in Range(unfilled_positions(current_team_name)) \ {draft_pos} :
            draw_panel(pos, draft_player)
    /\ UNCHANGED <<app, pc, pool, team_a, team_b, draft_round, draft_index, history,
                   sim_call, autos>>
    /\ UNCHANGED <<pick, gvars>>

\* The user selects another player: a script run with the new value.
SelectPlayer ==
    /\ app = "web" /\ pc = "idle" /\ draft_round <= 5
    /\ selections < MaxSelections
    /\ selections' = selections + 1
    /\ \E p \in Range(options(draft_pos)) \ {draft_player} :
            draw_panel(draft_pos, p)
    /\ UNCHANGED <<app, pc, pool, team_a, team_b, draft_round, draft_index, history,
                   sim_call, autos>>
    /\ UNCHANGED <<pick, gvars>>

Reshuffle ==
    /\ app = "web" /\ pc = "idle" /\ draft_round <= 5
    /\ \E s \in sample(cands(draft_pos), min(5, Len(cands(draft_pos)))) :
            opts' = [opts EXCEPT ![opt_key(draft_pos)] = s]
    /\ pc' = "run"
    /\ UNCHANGED <<app, pool, team_a, team_b, draft_round, draft_index, history,
                   widgets, sim_call, selections, autos>>
    /\ UNCHANGED <<pick, gvars>>

\* "Make Pick" with pick_choice, the value of the player box.  With no
\* option that is None, and make_pick raises on player.name after it has
\* assigned None to the (empty) slot: nothing changes.
MakePick ==
    /\ app = "web" /\ pc = "idle" /\ draft_round <= 5
    /\ IF draft_player = None
       THEN UNCHANGED <<pc, pool, team_a, team_b, draft_round, draft_index,
                        history, opts>>
       ELSE /\ make_pick(current_team_name, draft_pos, draft_player)
            /\ pc' = "run"
    /\ UNCHANGED <<app, widgets, sim_call, selections, autos>>
    /\ UNCHANGED <<pick, gvars>>

\* shown[0], the list not sorted
first_of(shown) == shown[1]

\* sorted(shown, key=overall_score, reverse=True)[0]: the first entry of
\* the highest score.
best_of(shown) ==
    shown[CHOOSE i \in DOMAIN shown :
            /\ \A j \in DOMAIN shown : overall_score(shown[j]) <= overall_score(shown[i])
            /\ \A j \in 1..(i - 1) : overall_score(shown[j]) < overall_score(shown[i])]

\* best_from_shown of "Auto-Pick (Best)"
best_from_shown(pos) ==
    IF opts[opt_key(pos)] # <<>> THEN best_of(opts[opt_key(pos)]) ELSE cands(pos)[1]

AutoPick ==
    /\ app = "web" /\ pc = "idle" /\ draft_round <= 5
    /\ autos < MaxAutoPicks
    /\ autos' = autos + 1
    /\ IF cands(draft_pos) # <<>>
       THEN /\ make_pick(current_team_name, draft_pos, best_from_shown(draft_pos))
            /\ pc' = "run"
       ELSE UNCHANGED <<pc, pool, team_a, team_b, draft_round, draft_index,
                        history, opts>>
    /\ UNCHANGED <<app, widgets, sim_call, selections>>
    /\ UNCHANGED <<pick, gvars>>

\* The button is drawn only while a team is on the clock, and is disabled
\* with an empty history.
UndoAvailable == draft_round <= 5 /\ Len(history) # 0

Undo ==
    /\ app = "web" /\ pc = "idle"
    /\ UndoAvailable
    /\ \E st \in {undo_last(draft_state)} : leaves(st)
    /\ pc' = "run"
    /\ UNCHANGED <<app, widgets, sim_call, selections, autos>>
    /\ UNCHANGED <<pick, gvars>>

ResetDraft ==
    /\ app = "web" /\ pc = "idle"
    /\ reset_all
    /\ pc' = "run"
    /\ UNCHANGED <<app, widgets, sim_call, selections, autos>>
    /\ UNCHANGED <<pick, gvars>>

(***************************************************************************)
(* app.py: the seed text box and the Simulate Game button.  A text is a    *)
(* list of characters.                                                     *)
(***************************************************************************)

Digits == [c \in {"0", "1", "2", "3", "4", "5", "6", "7", "8", "9"} |->
              CASE c = "0" -> 0 [] c = "1" -> 1 [] c = "2" -> 2 [] c = "3" -> 3
                [] c = "4" -> 4 [] c = "5" -> 5 [] c = "6" -> 6 [] c = "7" -> 7
                [] c = "8" -> 8 [] c = "9" -> 9]

RECURSIVE strip(_)
strip(t) ==
    IF t = <<>> THEN t
    ELSE IF t[1] = " " THEN strip(Tail(t))
    ELSE IF t[Len(t)] = " " THEN strip(SubSeq(t, 1, Len(t) - 1))
    ELSE t

RECURSIVE digits_value(_)
digits_value(t) ==
    IF t = <<>> THEN 0 ELSE 10 * digits_value(SubSeq(t, 1, Len(t) - 1)) + Digits[t[Len(t)]]

\* int(text): <<n>>, or <<>> where int raises ValueError
int(t) ==
    LET u == strip(t)
        body == IF u # <<>> /\ u[1] \in {"-", "+"} THEN Tail(u) ELSE u
    IN  IF body = <<>> \/ \E i \in DOMAIN body : body[i] \notin DOMAIN Digits THEN <<>>
        ELSE IF u[1] = "-" THEN <<0 - digits_value(body)>> ELSE <<digits_value(body)>>

\* seed_val of the sidebar: <<n>> for an integer seed, <<>> for None
seed_val(seed_in) == IF strip(seed_in) # <<>> THEN int(seed_in) ELSE <<>>

\* The texts the user types into the seed box.
SeedTexts == {<<>>, <<" ">>, <<"0">>, <<"7">>, <<"-", "1">>, <<"x">>}

\* "Simulate Game" (disabled unless ready; guarded again by "simulate and
\* ready"): simulate_game(team_a, team_b, seed=seed_val) is called.
Simulate ==
    /\ app = "web" /\ pc = "idle"
    /\ ready
    /\ \E seed_in \in SeedTexts :
            sim_call' = <<[team_a |-> team_a, team_b |-> team_b, seed |-> seed_val(seed_in)]>>
    /\ pc' = "sim"
    /\ UNCHANGED <<app, pool, team_a, team_b, draft_round, draft_index, history,
                   opts, widgets, selections, autos>>
    /\ UNCHANGED <<pick, gvars>>

\* simulate_game returns and the result is drawn; nothing of it is kept.
SimulateDone ==
    /\ pc = "sim"
    /\ sim_call' = <<>>
    /\ pc' = IF app = "web" THEN "idle" ELSE "done"
    /\ UNCHANGED <<app, pool, team_a, team_b, draft_round, draft_index, history,
                   opts, widgets, selections, autos>>
    /\ UNCHANGED <<pick, gvars>>

(***************************************************************************)
(* nba_draft_sim.py, __main__: the command line program.  draft_pos holds  *)
(* the position of the draft loop that is filled next.                     *)
(***************************************************************************)

\* list.remove(x): the first entry equal to x is removed; entries of equal
\* fields are equal (dataclass __eq__).
list_remove(l, x) ==
    l \ {CHOOSE i \in l :
            /\ PLAYER_DB[i] = PLAYER_DB[x]
            /\ \A j \in l : j < i => PLAYER_DB[j] # PLAYER_DB[x]}

\* max(cands, key=score): the first entry of the highest score
max_by_score(cs) ==
    cs[CHOOSE i \in DOMAIN cs :
            /\ \A j \in DOMAIN cs : overall_score(cs[j]) <= overall_score(cs[i])
            /\ \A j \in 1..(i - 1) : overall_score(cs[j]) < overall_score(cs[i])]

\* the position after pos in POSITIONS, NoPos after the last
next_position(pos) ==
    LET i == CHOOSE i \in DOMAIN POSITIONS : POSITIONS[i] = pos
    IN  IF i = Len(POSITIONS) THEN NoPos ELSE POSITIONS[i + 1]

\* str.lower() on the texts typed at the prompts and on the names of the
\* database; a text not listed holds no upper case letter.
lower(t) ==
    CASE t = "Kareem Abdul-Jabbar" -> "kareem abdul-jabbar"
      [] t = "Tim Duncan"          -> "tim duncan"
      [] t = "Stephen Curry"       -> "stephen curry"
      [] t = "Kevin Durant"        -> "kevin durant"
      [] t = "James Harden"        -> "james harden"
      [] t = "Dikembe Mutombo"     -> "dikembe mutombo"
      [] t = "Thabo Sefolosha"     -> "thabo sefolosha"
      [] t = "Doug Christie"       -> "doug christie"
      [] t = "DOUG CHRISTIE"       -> "doug christie"
      [] t = "Reggie Evans"        -> "reggie evans"
      [] t = "Ish Smith"           -> "ish smith"
      [] t = "Isaiah Joe"          -> "isaiah joe"
      [] t = "Doug"                -> "doug"
      [] t = "AUTO"                -> "auto"
      [] OTHER                     -> t

\* The texts typed at "Pick your <pos>: " (already stripped): the names of
\* the database but two, a name in lower case and a part of a name.
PickTexts ==
    ({name_of(p) : p \in Players} \ {"Ish Smith", "Isaiah Joe"})
        \cup {"doug christie", "Doug"}

\* The texts typed at "Type 'auto' ...".
AutoTexts == {"auto", "AUTO", ""}

\* find_player(name, pool): the first entry of that name, else None
find_player(name, pl) ==
    IF \E i \in DOMAIN pl : lower(name_of(pl[i])) = lower(name)
    THEN pl[CHOOSE i \in DOMAIN pl :
                /\ lower(name_of(pl[i])) = lower(name)
                /\ \A j \in 1..(i - 1) : lower(name_of(pl[j])) # lower(name)]
    ELSE None

\* auto = input("Type 'auto' ...").strip().lower() == 'auto'
CliStart ==
    /\ app = "cli" /\ pc = "start"
    /\ \E text \in AutoTexts :
            pc' = IF lower(text) = "auto" THEN "auto_a" ELSE "manual_a"
    /\ draft_pos' = POSITIONS[1]
    /\ UNCHANGED <<app, pool, team_a, team_b, draft_round, draft_index, history,
                   opts, draft_player, pos_options, player_options, sim_call,
                   selections, autos>>
    /\ UNCHANGED <<pick, gvars>>

\* One pass of the loop of auto_pick.  max() of no candidate raises
\* ValueError, which ends the program.
AutoDraftStep ==
    /\ app = "cli" /\ pc \in {"auto_a", "auto_b"}
    /\ LET cs == list_by_position(draft_pos, pool)
       IN  IF cs = <<>>
           THEN /\ pc' = "error"
                /\ UNCHANGED <<pool, team_a, team_b, draft_pos>>
           ELSE /\ set_slot(IF pc = "auto_a" THEN "Team A" ELSE "Team B",
                            draft_pos, max_by_score(cs))
                /\ pool' = list_remove(pool, max_by_score(cs))
                /\ IF next_position(draft_pos) # NoPos
                   THEN /\ draft_pos' = next_position(draft_pos)
                        /\ pc' = pc
                   ELSE /\ draft_pos' = POSITIONS[1]
                        /\ pc' = IF pc = "auto_a" THEN "auto_b" ELSE "seed"
    /\ UNCHANGED <<app, draft_round, draft_index, history, opts, draft_player,
                   pos_options, player_options, sim_call, selections, autos>>
    /\ UNCHANGED <<pick, gvars>>

\* draft_team, top of the loop body: the candidates of the position are
\* listed and at most five of them shown (player_options holds the local
\* options).  No candidate raises ValueError, which ends the program.
DraftTeamShow ==
    /\ app = "cli" /\ pc \in {"manual_a", "manual_b"}
    /\ player_options = <<>>
    /\ LET candidates == list_by_position(draft_pos, pool)
       IN  IF candidates = <<>>
           THEN /\ pc' = "error"
                /\ UNCHANGED player_options
           ELSE /\ pc' = pc
                /\ player_options' \in sample(candidates, min(5, Len(candidates)))
    /\ UNCHANGED <<app, pool, team_a, team_b, draft_round, draft_index, history,
                   opts, draft_pos, draft_player, pos_options, sim_call,
                   selections, autos>>
    /\ UNCHANGED <<pick, gvars>>

\* draft_team, one pass of "while True": a name is typed; a name that is
\* not among the options is asked again.
DraftTeamPick ==
    /\ app = "cli" /\ pc \in {"manual_a", "manual_b"}
    /\ player_options # <<>>
    /\ \E text \in PickTexts :
        LET sel == find_player(text, player_options)
        IN  /\ pick' = text
            /\ IF sel = None
               THEN UNCHANGED <<pc, pool, team_a, team_b, draft_pos, player_options>>
               ELSE /\ set_slot(IF pc = "manual_a" THEN "Team A" ELSE "Team B",
                                draft_pos, sel)
                    /\ pool' = list_remove(pool, sel)
                    /\ player_options' = <<>>
                    /\ IF next_position(draft_pos) # NoPos
                       THEN /\ draft_pos' = next_position(draft_pos)
                            /\ pc' = pc
                       ELSE /\ draft_pos' = POSITIONS[1]
                            /\ pc' = IF pc = "manual_a" THEN "manual_b" ELSE "seed"
    /\ UNCHANGED <<app, draft_round, draft_index, history, opts, draft_player,
                   pos_options, sim_call, selections, autos>>
    /\ UNCHANGED gvars

\* seed = int(seed_in) if seed_in else None; an int() that raises ends the
\* program.
CliSimulate ==
    /\ app = "cli" /\ pc = "seed"
    /\ \E seed_in \in SeedTexts :
        LET t == strip(seed_in)
        IN  IF t # <<>> /\ int(t) = <<>>
            THEN /\ pc' = "error"
                 /\ UNCHANGED sim_call
            ELSE /\ pc' = "sim"
                 /\ sim_call' = <<[team_a |-> team_a, team_b |-> team_b,
                                   seed |-> IF t # <<>> THEN int(t) ELSE <<>>]>>
    /\ UNCHANGED <<app, pool, team_a, team_b, draft_round, draft_index, history,
                   opts, widgets, selections, autos>>
    /\ UNCHANGED <<pick, gvars>>

(***************************************************************************)
(* Module random.  The generator is a state machine: random.seed(n) puts   *)
(* it in a state that n fixes, each random.random() steps it and returns a *)
(* value of [0, 1) (here a number of 1024ths) that the new state fixes.    *)
(* An unseeded generator starts in a state nobody chose.                   *)
(***************************************************************************)

\* Number of states of the generator.
RngMod == 65536

abs(n) == IF n < 0 THEN 0 - n ELSE n

\* random.seed(n), n an int: the sign of n is dropped
random_seed(n) == abs(n) % RngMod

\* the state after one draw
random_next(x) == (25173 * x + 13849) % RngMod

\* the value random.random() returns in state x, in 1024ths
random_value(x) == (x * 1024) \div RngMod

\* "random.random() < p", the draw in 1024ths, p in millionths
draw_below(u, p) == u * 1000000 < p * 1024

\* random.choices(population, weights=weights, k=1)[0] with the draw u:
\* bisect(cum_weights, u * total, 0, len - 1)
choices(population, weights, u) ==
    LET n == Len(population)
        cum == [i \in 1..n |-> SumSeq(SubSeq(weights, 1, i))]
        total == cum[n]
        hits == {i \in 1..(n - 1) : cum[i] * 1024 > u * total}
    IN  population[IF hits = {} THEN n ELSE CHOOSE i \in hits : \A j \in hits : i <= j]

\* States an unseeded generator is found in.
Entropy == {1, 4242, 51966}

(***************************************************************************)
(* nba_draft_sim.py: Team.                                                 *)
(***************************************************************************)

all_players(lineup) == [i \in DOMAIN POSITIONS |-> lineup[POSITIONS[i]]]

\* Ratings and pace in thousandths.
team_synergy(lineup) ==
    LET players == all_players(lineup)
        n == Len(players)
        mean(f(_)) == SumSeq(MapSeq(players, f)) \div n
        spacing == mean(LAMBDA p : ratings[p].three * (500 + ratings[p].three_tendency))
                       \div 1000
        rim_pressure == mean(LAMBDA p : ratings[p].finishing)
        ball_move == mean(LAMBDA p : ratings[p].playmaking)
        int_def == mean(LAMBDA p : IF PLAYER_DB[p].pos_primary \in {"PF", "C"}
                                   THEN ratings[p].int_def
                                   ELSE (ratings[p].int_def * 8) \div 10)
        per_def == mean(LAMBDA p : IF PLAYER_DB[p].pos_primary \in {"PG", "SG", "SF"}
                                   THEN ratings[p].per_def
                                   ELSE (ratings[p].per_def * 8) \div 10)
        reb == mean(LAMBDA p : ratings[p].rebounding)
        pace == 96000 + (ball_move - 50000) \div 10 + (spacing - 50000) \div 20
    IN  [spacing |-> spacing, rim_pressure |-> rim_pressure, ball_move |-> ball_move,
         int_def |-> int_def, per_def |-> per_def, rebounding |-> reb,
         pace |-> clamp(pace, 90000, 104000)]

(***************************************************************************)
(* nba_draft_sim.py: possession.  A stat update maps the key               *)
(* "<name>_<stat>" (the pair <<name, stat>>) to a count.  Probabilities    *)
(* are in millionths.                                                      *)
(***************************************************************************)

NoStats == [k \in {} |-> 0]

\* stats[key] = stats.get(key, 0) + v, key = f"{name_of(p)}_{stat}"
add(stats, p, stat, v) ==
    LET key == <<name_of(p), stat>>
    IN  IF key \in DOMAIN stats
        THEN [stats EXCEPT ![key] = @ + v]
        ELSE (key :> v) @@ stats

\* What a possession went through, for the properties below: None and
\* FALSE for what it did not come to.
event(turnover, shooter, is_three, drew_foul, made, ft_makes, rebound, putback) ==
    [turnover |-> turnover, shooter |-> shooter, is_three |-> is_three,
     drew_foul |-> drew_foul, made |-> made, ft_makes |-> ft_makes,
     rebound |-> rebound, putback |-> putback]

\* the one element of a set of one
the(S) == CHOOSE v \in S : TRUE

\* the states of the generator after 1, 2, ... 11 draws from x0 (a
\* possession makes at most eleven draws)
draws(x0) ==
    LET F[k \in 0..11] == IF k = 0 THEN x0 ELSE random_next(F[k - 1])
    IN  [k \in 1..11 |-> F[k]]

\* "if drew_foul:" without the inner "if ft_makes:": the possession ends
\* with the free throws whether or not one went in
ends_with_free_throws_any(drew_foul, ft_makes) == drew_foul

\* "if drew_foul: ... if ft_makes: ... return ft_makes, stats": a missed
\* shot ends the possession with the free throws when one went in
ends_with_free_throws(drew_foul, ft_makes) == drew_foul /\ ft_makes # 0

\* possession from the shot on: off_syn and def_syn the synergies, xs the
\* generator states of the draws, shooter the player drawn to shoot
shot(off, defn, off_syn, def_syn, xs, shooter) ==
    LET players == all_players(off)
        r == ratings[shooter]
        assist_prob == clamp(450000 + (off_syn.ball_move - 50000) * 12
                                    + (off_syn.spacing - 50000) * 6
                                    + (r.playmaking - 50000) * 15,
                             450000, 970000)
        assisted == draw_below(random_value(xs[3]), assist_prob)
        p3 == clamp(50000 + r.three_tendency * 1000 + (off_syn.spacing - 50000) * 2
                          - ((def_syn.per_def - 50000) * 3) \div 2,
                    30000, 650000)
        is_three == draw_below(random_value(xs[4]), p3)
        inside_bias == clamp((off_syn.rim_pressure - def_syn.int_def) \div 100 + 500,
                             300, 700)
        shot_skill == IF is_three THEN r.three
                      ELSE (inside_bias * r.finishing + (1000 - inside_bias) * r.mid)
                               \div 1000
        def_impact == IF is_three THEN def_syn.per_def
                      ELSE (7 * def_syn.int_def + 3 * def_syn.per_def) \div 10
        base == ((shot_skill - def_impact) * 35) \div 10 + 480000
                    - (IF is_three THEN 70000 ELSE 0)
        make_prob == clamp(base, IF is_three THEN 240000 ELSE 300000,
                                 IF is_three THEN 520000 ELSE 730000)
        foul_prob == clamp(50000 + (r.finishing - 50000) * 2 - (def_syn.int_def - 50000),
                           30000, 180000)
        \* "(not is_three) and (random.random() < foul_prob)" draws for a two
        \* only: d counts the draws made so far
        d5 == IF is_three THEN 4 ELSE 5
        drew_foul == ~is_three /\ draw_below(random_value(xs[d5]), foul_prob)
        made == draw_below(random_value(xs[d5 + 1]), make_prob)
        \* made shot
        made_stats == add(add(add(NoStats, shooter, "pts", IF is_three THEN 3 ELSE 2),
                              shooter, "fga", 1), shooter, "fgm", 1)
        mates == SelectSeq(players, LAMBDA p : p # shooter)
        passer == choices(mates,
                          MapSeq(mates, LAMBDA tm : max(1000, ratings[tm].playmaking)),
                          random_value(xs[d5 + 2]))
        \* missed shot
        miss_stats == add(NoStats, shooter, "fga", 1)
        ft_prob == clamp(440000 + (r.ft - 50000) * 6 - (def_syn.int_def - 50000),
                         500000, 950000)
        ft_makes == (IF draw_below(random_value(xs[d5 + 2]), ft_prob) THEN 1 ELSE 0)
                    + (IF draw_below(random_value(xs[d5 + 3]), ft_prob) THEN 1 ELSE 0)
        ft_stats == add(add(add(miss_stats, shooter, "pts", ft_makes),
                            shooter, "fta", 2), shooter, "ftm", ft_makes)
        \* rebound
        d8 == IF drew_foul THEN d5 + 3 ELSE d5 + 1
        off_reb_edge == (off_syn.rebounding - def_syn.rebounding) * 3 + 240000
        oreb == draw_below(random_value(xs[d8 + 1]), clamp(off_reb_edge, 160000, 340000))
        boarder == choices(players,
                           MapSeq(players, LAMBDA p : max(1000, ratings[p].rebounding)),
                           random_value(xs[d8 + 2]))
        orb_stats == add(miss_stats, boarder, "orb", 1)
        putback_prob == clamp(540000 + (r.finishing - 50000) * 4
                                     - (def_syn.int_def - 50000) * 3,
                              400000, 800000)
        putback == draw_below(random_value(xs[d8 + 3]), putback_prob)
        defenders == all_players(defn)
        dboarder == choices(defenders,
                            MapSeq(defenders, LAMBDA p : max(1000, ratings[p].rebounding)),
                            random_value(xs[d8 + 2]))
    IN  IF made
        THEN [points |-> IF is_three THEN 3 ELSE 2,
              stats |-> IF assisted THEN add(made_stats, passer, "ast", 1) ELSE made_stats,
              rng |-> IF assisted THEN xs[d5 + 2] ELSE xs[d5 + 1],
              ev |-> event(FALSE, shooter, is_three, drew_foul, TRUE, 0, "none", FALSE)]
        ELSE IF ends_with_free_throws(drew_foul, ft_makes)
        THEN [points |-> ft_makes, stats |-> ft_stats, rng |-> xs[d5 + 3],
              ev |-> event(FALSE, shooter, is_three, TRUE, FALSE, ft_makes, "none", FALSE)]
        ELSE IF oreb /\ putback
        THEN [points |-> 2,
              stats |-> add(add(add(orb_stats, shooter, "pts", 2),
                                shooter, "fga", 1), shooter, "fgm", 1),
              rng |-> xs[d8 + 3],
              ev |-> event(FALSE, shooter, is_three, drew_foul, FALSE, 0, "off", TRUE)]
        ELSE IF oreb
        THEN [points |-> 0, stats |-> add(orb_stats, shooter, "fga", 1),
              rng |-> xs[d8 + 3],
              ev |-> event(FALSE, shooter, is_three, drew_foul, FALSE, 0, "off", FALSE)]
        ELSE [points |-> 0, stats |-> add(miss_stats, dboarder, "drb", 1),
              rng |-> xs[d8 + 2],
              ev |-> event(FALSE, shooter, is_three, drew_foul, FALSE, 0, "def", FALSE)]

\* possession with the shooter chosen before the turnover draw
turnover_or_shot_shooter_first(off, defn, off_syn, def_syn, xs) ==
    LET tov == clamp(125000 - (off_syn.ball_move - 50000) + (def_syn.per_def - 50000),
                     60000, 180000)
        players == all_players(off)
    IN  IF draw_below(random_value(xs[2]), tov)
        THEN [points |-> 0, stats |-> NoStats, rng |-> xs[2],
              ev |-> event(TRUE, None, FALSE, FALSE, FALSE, 0, "none", FALSE)]
        ELSE the({shot(off, defn, off_syn, def_syn, xs, shooter) :
                    shooter \in {choices(players,
                                         MapSeq(players,
                                                LAMBDA p : max(50, ratings[p].usage)),
                                         random_value(xs[1]))}})

\* possession up to the choice of the shooter
turnover_or_shot(off, defn, off_syn, def_syn, xs) ==
    LET tov == clamp(125000 - (off_syn.ball_move - 50000) + (def_syn.per_def - 50000),
                     60000, 180000)
        players == all_players(off)
    IN  IF draw_below(random_value(xs[1]), tov)
        THEN [points |-> 0, stats |-> NoStats, rng |-> xs[1],
              ev |-> event(TRUE, None, FALSE, FALSE, FALSE, 0, "none", FALSE)]
        ELSE the({shot(off, defn, off_syn, def_syn, xs, shooter) :
                    shooter \in {choices(players,
                                         MapSeq(players,
                                                LAMBDA p : max(50, ratings[p].usage)),
                                         random_value(xs[2]))}})

\* possession(off, defn) with the generator in state x0: the points, the
\* stat updates, the state the generator is left in, and the event.
possession(off, defn, x0) ==
    the({turnover_or_shot(off, defn, off_syn, def_syn, xs) :
            off_syn \in {team_synergy(off)}, def_syn \in {team_synergy(defn)},
            xs \in {draws(x0)}})

(***************************************************************************)
(* nba_draft_sim.py: simulate_game, one action per pass of its loop.  The  *)
(* arguments of the call are those of sim_call.                            *)
(***************************************************************************)

\* simulate_game is called at most MaxGames times with the same arguments.
MaxGames == 2

StatNames == {"pts", "fga", "fgm", "fta", "ftm", "ast", "orb", "drb"}

NewBoxEntry == [stat \in StatNames |-> 0]

NoBox == [n \in {} |-> NewBoxEntry]

\* merge_stats(updates) on box; rsplit('_', 1) gives back <<name, stat>>
merge_stats(box, updates) ==
    LET old(n) == IF n \in DOMAIN box THEN box[n] ELSE NewBoxEntry
    IN  [n \in DOMAIN box \cup {k[1] : k \in DOMAIN updates} |->
            [stat \in StatNames |->
                old(n)[stat] + (IF <<n, stat>> \in DOMAIN updates
                                THEN updates[<<n, stat>>] ELSE 0)]]

\* "if seed:" in place of "if seed is not None:": seed 0 does not seed
seeded_if_truthy(seed, x) ==
    IF seed # <<>> /\ seed[1] # 0 THEN random_seed(seed[1]) ELSE x

\* "if seed is not None: random.seed(seed)": the generator state after it
seeded(seed, x) == IF seed # <<>> THEN random_seed(seed[1]) ELSE x

\* possessions = int(pace), pace the mean of the two paces
possessions_of(a_syn, b_syn) == ((a_syn.pace + b_syn.pace) \div 2) \div 1000

\* range(possessions)
loop_count_single(possessions) == possessions

\* range(possessions*2)
loop_count(possessions) == possessions * 2

\* the team on offense in pass i of the loop
offense(i) == IF i % 2 = 0 THEN "Team A" ELSE "Team B"

\* Entry of simulate_game, up to the loop.
SimulateGame ==
    /\ sim_call # <<>> /\ game = <<>>
    /\ Len(results) < MaxGames
    /\ rng' = seeded(sim_call[1].seed, rng)
    /\ game' = <<[i |-> 0,
                  possessions |-> possessions_of(team_synergy(sim_call[1].team_a),
                                                 team_synergy(sim_call[1].team_b)),
                  score_a |-> 0, score_b |-> 0, box |-> NoBox,
                  rng_at_call |-> rng, last |-> <<>>]>>
    /\ UNCHANGED results
    /\ UNCHANGED <<dvars, sim_call>>

\* One pass of "for i in range(possessions*2)".  last keeps what the pass
\* did: the offense, the points, the updates and the event.
PlayPossession ==
    /\ game # <<>>
    /\ game[1].i < loop_count(game[1].possessions)
    /\ \E res \in {IF offense(game[1].i) = "Team A"
                    THEN possession(sim_call[1].team_a, sim_call[1].team_b, rng)
                    ELSE possession(sim_call[1].team_b, sim_call[1].team_a, rng)} :
       LET g == game[1]
       IN  /\ rng' = res.rng
           /\ game' = <<[g EXCEPT
                  !.i = @ + 1,
                  !.score_a = IF offense(g.i) = "Team A" THEN @ + res.points ELSE @,
                  !.score_b = IF offense(g.i) = "Team A" THEN @ ELSE @ + res.points,
                  !.box = merge_stats(@, res.stats),
                  !.last = <<[off |-> offense(g.i), points |-> res.points,
                              updates |-> res.stats, ev |-> res.ev]>>]>>
    /\ UNCHANGED results
    /\ UNCHANGED <<dvars, sim_call>>

\* The loop is over and simulate_game returns (played: the passes made).
SimulateGameReturn ==
    /\ game # <<>>
    /\ game[1].i >= loop_count(game[1].possessions)
    /\ results' = Append(results,
            [score |-> <<game[1].score_a, game[1].score_b>>,
             box |-> game[1].box,
             possessions |-> game[1].possessions * 2,
             played |-> game[1].i,
             rng_at_call |-> game[1].rng_at_call])
    /\ game' = <<>>
    /\ UNCHANGED rng
    /\ UNCHANGED <<dvars, sim_call>>

\* Between two calls other code draws from the generator (the option lists
\* of the draft are sampled from it): it is left in any state.
RandomUse ==
    /\ game = <<>>
    /\ rng' \in Entropy \ {rng}
    /\ UNCHANGED <<game, results>>
    /\ UNCHANGED <<dvars, sim_call>>

\* Lineups that the drafts end with, and the text last typed: the command
\* line auto-draft, and two manual drafts in which "Doug Christie" is picked
\* twice.
Lineup(pg, sg, sf, pf, c) ==
    [pos \in Range(POSITIONS) |->
        CASE pos = "PG" -> pg [] pos = "SG" -> sg [] pos = "SF" -> sf
          [] pos = "PF" -> pf [] pos = "C" -> c]

GameLineups ==
    { <<Lineup(3, 5, 4, 1, 2), Lineup(12, 7, 8, 6, 10), "">>,
      <<Lineup(3, 8, 4, 2, 1), Lineup(5, 9, 7, 10, 6), "Dikembe Mutombo">>,
      <<Lineup(3, 8, 9, 2, 1), Lineup(5, 7, 4, 10, 6), "Dikembe Mutombo">> }

\* The seeds the two programs pass: None and the integers of SeedTexts.
GameSeeds == {seed_val(t) : t \in SeedTexts}

\* The state in which the command line program calls simulate_game.
GameInit ==
    /\ app = "cli"
    /\ pc = "sim"
    /\ \E l \in GameLineups, seed \in GameSeeds :
        /\ team_a = l[1]
        /\ team_b = l[2]
        /\ sim_call = <<[team_a |-> l[1], team_b |-> l[2], seed |-> seed]>>
        /\ pick = l[3]
    /\ pool = Players \ (Range(all_players(team_a)) \cup Range(all_players(team_b)))
    /\ draft_round = 1
    /\ draft_index = 0
    /\ history = <<>>
    /\ opts = NoOpts
    /\ draft_pos = POSITIONS[1]
    /\ draft_player = None
    /\ pos_options = <<>>
    /\ player_options = <<>>
    /\ selections = 0
    /\ autos = 0
    /\ rng \in Entropy
    /\ game = <<>>
    /\ results = <<>>

GameNext ==
    \/ SimulateGame
    \/ PlayPossession
    \/ SimulateGameReturn
    \/ RandomUse

GameSpec == GameInit /\ [][GameNext]_vars

(***************************************************************************)
(* The two programs.                                                       *)
(***************************************************************************)

Init ==
    /\ app \in {"web", "cli"}
    /\ pc = IF app = "web" THEN "run" ELSE "start"
    /\ pool = Players
    /\ team_a = EmptyLineup
    /\ team_b = EmptyLineup
    /\ draft_round = 1
    /\ draft_index = 0
    /\ history = <<>>
    /\ opts = NoOpts
    /\ draft_pos = NoPos
    /\ draft_player = None
    /\ pos_options = <<>>
    /\ player_options = <<>>
    /\ pick = ""
    /\ sim_call = <<>>
    /\ selections = 0
    /\ autos = 0
    /\ rng = 0
    /\ game = <<>>
    /\ results = <<>>

Next ==
    \/ Render
    \/ SelectPos
    \/ SelectPlayer
    \/ Reshuffle
    \/ MakePick
    \/ AutoPick
    \/ Undo
    \/ ResetDraft
    \/ Simulate
    \/ SimulateDone
    \/ CliStart
    \/ AutoDraftStep
    \/ DraftTeamShow
    \/ DraftTeamPick
    \/ CliSimulate

Spec == Init /\ [][Next]_vars

(***************************************************************************)
(* Properties of the drafts (Spec).                                        *)
(***************************************************************************)

\* the picking teams of a snake draft of five rounds
SnakeOrder ==
    <<"Team A", "Team B", "Team B", "Team A", "Team A",
      "Team B", "Team B", "Team A", "Team A", "Team B">>

\* C2: the web draft follows snake order: the k-th pick is made by the k-th
\* team of A,B,B,A,A,B,B,A,A,B (Team A first in odd rounds, Team B first in
\* even rounds), and while the draft runs the team on the clock is the team
\* of the next pick.
C2_SnakeOrder ==
    app = "web" =>
        /\ Len(history) <= Len(SnakeOrder)
        /\ \A k \in DOMAIN history : history[k][1] = SnakeOrder[k]
        /\ draft_round <= 5 =>
              /\ draft_round = Len(history) \div 2 + 1
              /\ draft_index = Len(history) % 2
              /\ current_team_name = SnakeOrder[Len(history) + 1]

\* The web draft has run through its ten picks.
C2_Witness == app = "web" /\ Len(history) = 10 /\ pc = "idle"

\* the player the picks so far put at a position of a team, None without one
picked_for(team, pos) ==
    IF \E k \in DOMAIN history : history[k][1] = team /\ history[k][2] = pos
    THEN history[CHOOSE k \in DOMAIN history :
                    history[k][1] = team /\ history[k][2] = pos][3]
    ELSE None

\* C3: in the web draft every pick fills a position that was empty on the
\* team on the clock (no two picks go to the same slot, and each slot holds
\* what its pick put there), the two picks of a round are made by the two
\* teams, ten picks fill both lineups, and no pick is made once draft_round
\* exceeds 5 (there are never more than ten).
C3_PicksFillEmptySlots ==
    app = "web" =>
        /\ \A j, k \in DOMAIN history :
              j # k => <<history[j][1], history[j][2]>> # <<history[k][1], history[k][2]>>
        /\ \A pos \in Range(POSITIONS) :
              /\ team_a[pos] = picked_for("Team A", pos)
              /\ team_b[pos] = picked_for("Team B", pos)
        /\ \A k \in DOMAIN history : history[k][3] # None
        /\ \A k \in DOMAIN history :
              k % 2 = 0 => history[k][1] # history[k - 1][1]
        /\ Len(history) <= 10
        /\ Len(history) = 10 =>
              \A pos \in Range(POSITIONS) : team_a[pos] # None /\ team_b[pos] # None
        /\ draft_round > 5 => Len(history) = 10

\* Ten picks were made and both lineups are full.
C3_Witness ==
    /\ app = "web" /\ Len(history) = 10 /\ draft_round > 5
    /\ \A pos \in Range(POSITIONS) : team_a[pos] # None /\ team_b[pos] # None

\* every slot of a lineup holds a player
complete(lineup) == \A pos \in Range(POSITIONS) : lineup[pos] # None

\* C4: Simulate Game is enabled (ready) exactly when the draft is finished:
\* all ten slots are filled exactly when draft_round > 5; and simulate_game
\* is never called with a lineup that has an empty position.
C4_SimulateIffDraftFinished ==
    /\ app = "web" =>
        /\ ready <=> draft_round > 5
        /\ (complete(team_a) /\ complete(team_b)) <=> draft_round > 5
    /\ sim_call # <<>> => complete(sim_call[1].team_a) /\ complete(sim_call[1].team_b)

\* The web app is in the call of simulate_game.
C4_Witness == app = "web" /\ pc = "sim" /\ sim_call # <<>> /\ draft_round > 5

\* C8: Undo Last Pick is disabled only when the pick history is empty: in
\* every state of the web draft in which at least one pick has been made,
\* the most recent pick can be undone.
C8_UndoWheneverPicked ==
    app = "web" /\ pc = "idle" /\ Len(history) > 0 => UndoAvailable

\* C9: Reset Draft, from any state, restores the initial draft state: the
\* full pool, two empty lineups, round 1, index 0, an empty history and no
\* cached option list.
C9_ResetRestoresInitialState ==
    [][ResetDraft =>
          /\ pool' = Players
          /\ \A pos \in Range(POSITIONS) : team_a'[pos] = None /\ team_b'[pos] = None
          /\ draft_round' = 1
          /\ draft_index' = 0
          /\ history' = <<>>
          /\ DOMAIN opts' = {}]_vars

\* Reset Draft was clicked after a complete draft (in which Auto-Pick was
\* used): the page is about to be drawn again.
C9_Witness ==
    /\ app = "web" /\ pc = "run" /\ autos = 1
    /\ draft_pos = NoPos
    /\ history = <<>> /\ pool = Players /\ draft_round = 1

\* p has the highest overall score of the players of pl eligible at pos
best_eligible(p, pos, pl) ==
    /\ p \in Range(list_by_position(pos, pl))
    /\ \A q \in Range(list_by_position(pos, pl)) : overall_score(q) <= overall_score(p)

\* the step is a pick of "Auto-Pick (Best)"
WebAutoPicked == AutoPick /\ Len(history') = Len(history) + 1

\* the step is a pick of the command line auto-draft
CliAutoPicked == AutoDraftStep /\ pc' # "error"

\* the player the step leaves at position pos of the team named name
slot_after(name, pos) == IF name = "Team A" THEN team_a'[pos] ELSE team_b'[pos]

\* the team the command line auto-draft is picking for
cli_team == IF pc = "auto_a" THEN "Team A" ELSE "Team B"

\* C10 as stated: auto-pick drafts the player with the highest overall score
\* among all players of the pool eligible for the position being filled, in
\* the web app's Auto-Pick (Best) and in the command line auto-draft.
C10_AutoPickBestOfPool ==
    [][/\ WebAutoPicked =>
              best_eligible(history'[Len(history')][3], draft_pos, pool)
       /\ CliAutoPicked =>
              best_eligible(slot_after(cli_team, draft_pos), draft_pos, pool)]_vars

\* C10 amended: the web app's Auto-Pick (Best) drafts the player with the
\* highest overall score among the (at most five) options shown for the
\* pick, which are eligible players of the pool; the command line auto-draft
\* drafts the player with the highest overall score among all eligible
\* players of the pool.
C10_AutoPickBestOfShown ==
    [][/\ WebAutoPicked =>
              LET shown == opts[opt_key(draft_pos)]
                  p == history'[Len(history')][3]
              IN  /\ p \in Range(shown)
                  /\ Range(shown) \subseteq Range(list_by_position(draft_pos, pool))
                  /\ Len(shown) = min(5, Len(list_by_position(draft_pos, pool)))
                  /\ \A q \in Range(shown) : overall_score(q) <= overall_score(p)
                  /\ slot_after(current_team_name, draft_pos) = p
       /\ CliAutoPicked =>
              best_eligible(slot_after(cli_team, draft_pos), draft_pos, pool)]_vars

\* Auto-Pick (Best) made the first pick at SG and chose James Harden, while
\* Stephen Curry (eligible at SG, of higher score) is still in the pool.
C10_Witness ==
    /\ app = "web" /\ autos = 1 /\ pc = "run"
    /\ history = << <<"Team A", "SG", 5>> >>
    /\ 3 \in pool
    /\ overall_score(3) > overall_score(5)

\* draft_team waits for a name at position draft_pos
ManualPrompt == app = "cli" /\ pc \in {"manual_a", "manual_b"} /\ player_options # <<>>

\* the team draft_team is called for
manual_team == IF pc = "manual_a" THEN "Team A" ELSE "Team B"

\* the options shown whose name is text, letter case aside
matching(text, shown) == {p \in Range(shown) : lower(name_of(p)) = lower(text)}

\* the step fills position pos of the team named name with p and nothing else
fills_only(name, pos, p) ==
    /\ slot_after(name, pos) = p
    /\ \A q \in Range(POSITIONS) \ {pos} : slot_after(name, q) = team_dict(name)[q]
    /\ name = "Team A" => team_b' = team_b
    /\ name = "Team B" => team_a' = team_a

\* C11: in the manual draft of the command line program, a typed name that
\* matches none of the options shown for the position, letter case aside, is
\* rejected: the lineups and the pool are unchanged and the same position is
\* asked again with the same options; a matching name fills exactly that
\* position with that player and takes the player out of the pool (no entry
\* equal to the player is left in it); a position without an eligible player
\* raises ValueError.
C11_ManualPick ==
    [][/\ ManualPrompt =>
            IF matching(pick', player_options) = {}
            THEN /\ team_a' = team_a /\ team_b' = team_b /\ pool' = pool
                 /\ draft_pos' = draft_pos /\ pc' = pc
                 /\ player_options' = player_options
            ELSE \E p \in matching(pick', player_options) :
                    /\ fills_only(manual_team, draft_pos, p)
                    /\ pool' \subseteq pool
                    /\ Cardinality(pool') = Cardinality(pool) - 1
                    /\ \A q \in pool' : PLAYER_DB[q] # PLAYER_DB[p]
       /\ /\ app = "cli" /\ pc \in {"manual_a", "manual_b"}
          /\ player_options = <<>>
          /\ list_by_position(draft_pos, pool) = <<>>
          => pc' = "error"]_vars

\* the lineup slots: a team and a position
Slots == {"Team A", "Team B"} \X Range(POSITIONS)

\* the player in a slot, None in an empty one
slot(sl) == team_dict(sl[1])[sl[2]]

\* no name is in two slots of the two lineups
NoNameTwice ==
    \A s1, s2 \in Slots :
        s1 # s2 /\ slot(s1) # None /\ slot(s2) # None =>
            name_of(slot(s1)) # name_of(slot(s2))

\* C12: no player is drafted twice: in the web draft and in the command line
\* drafts (manual and auto), which start from a pool that is a copy of
\* PLAYER_DB, after any sequence of picks no player name is in more than one
\* slot of the two lineups.
C12_NoPlayerTwice == NoNameTwice

\* the players of a pool, as a set of records
players_of(pl) == {PLAYER_DB[p] : p \in pl}

\* the step is a call of make_pick
Picked == app = "web" /\ Len(history') = Len(history) + 1

\* C13: make_pick immediately followed by undo_last is the identity on the
\* draft state: undo_last, called in the state a make_pick leaves, gives back
\* the two lineups, draft_round, draft_index, the history and the set of
\* players of the pool of before the pick, and the team then on the clock is
\* the team whose pick was undone; undo_last with an empty history changes
\* nothing.
C13_PickThenUndoIsIdentity ==
    /\ [][Picked =>
            LET st == undo_last(draft_state')
            IN  /\ st.team_a = team_a
                /\ st.team_b = team_b
                /\ st.draft_round = draft_round
                /\ st.draft_index = draft_index
                /\ st.history = history
                /\ players_of(st.pool) = players_of(pool)
                /\ current_team_name = history'[Len(history')][1]]_vars
    /\ [](history = <<>> => undo_last(draft_state) = draft_state)

\* "Doug Christie" was picked while the pool held both entries of that name,
\* and the pick was undone: the history is empty again and the pool holds
\* one of the two entries.
C13_Witness ==
    /\ app = "web" /\ pc = "idle"
    /\ history = <<>> /\ draft_round = 1 /\ draft_index = 0
    /\ team_a = EmptyLineup /\ team_b = EmptyLineup
    /\ pool # Players
    /\ players_of(pool) = players_of(Players)


(***************************************************************************)
(* Properties of the possession engine (GameSpec).                         *)
(***************************************************************************)

\* what a call returned to its caller
returned(r) == [score |-> r.score, box |-> r.box, possessions |-> r.possessions]

\* C1: simulate_game is deterministic given a seed: with an integer seed, any
\* two calls with the same teams and seed return the same score pair, the
\* same box score and the same possession count, in whatever state the
\* generator was when each call was made.
C1_SeededCallsAgree ==
    sim_call # <<>> /\ sim_call[1].seed # <<>> =>
        \A i, j \in DOMAIN results : returned(results[i]) = returned(results[j])

\* Two calls with an integer seed have returned, made with the generator in
\* two different states.
C1_Witness ==
    /\ sim_call # <<>> /\ sim_call[1].seed # <<>>
    /\ Len(results) >= 2
    /\ results[1].rng_at_call # results[2].rng_at_call
    /\ results[1].score[1] + results[1].score[2] > 0

\* the pace of a lineup, in thousandths
pace_of(lineup) == team_synergy(lineup).pace

\* 2*floor((pace_A + pace_B)/2) for the teams of the call
PossessionCount ==
    2 * (((pace_of(sim_call[1].team_a) + pace_of(sim_call[1].team_b)) \div 2) \div 1000)

\* C5: simulate_game plays possessions strictly alternately, Team A on
\* offense first (the k-th possession, counted from 1, is Team A's exactly
\* when k is odd), never more than 2*floor((pace_A + pace_B)/2) of them; the
\* 'possessions' value it returns is that number, is the number of
\* possessions it played (an even number, so half for each team), and lies
\* between 180 and 208.
C5_PossessionsAlternate ==
    /\ game # <<>> =>
        /\ game[1].i <= PossessionCount
        /\ game[1].last # <<>> =>
              game[1].last[1].off = IF game[1].i % 2 = 1 THEN "Team A" ELSE "Team B"
    /\ \A k \in DOMAIN results :
        /\ results[k].possessions = PossessionCount
        /\ results[k].played = results[k].possessions
        /\ results[k].possessions % 2 = 0
        /\ results[k].possessions >= 180 /\ results[k].possessions <= 208

\* A game was played to its end and returned.
C5_Witness ==
    /\ Len(results) >= 1
    /\ results[1].played > 0
    /\ results[1].score[1] > 0 /\ results[1].score[2] > 0

\* 'pts' of a player in a box score, 0 without an entry (box.get(name, {}))
box_pts(box, p) == IF name_of(p) \in DOMAIN box THEN box[name_of(p)].pts ELSE 0

\* the sum of 'pts' over the five players of a lineup
team_pts(box, lineup) == SumSeq(MapSeq(all_players(lineup), LAMBDA p : box_pts(box, p)))

\* C6: the box score accounts for every point: after any number of
\* possessions, and in the result returned, each team's score is the sum of
\* the 'pts' entries of its five lineup players.
C6_ScoreIsBoxSum ==
    /\ game # <<>> =>
        /\ game[1].score_a = team_pts(game[1].box, sim_call[1].team_a)
        /\ game[1].score_b = team_pts(game[1].box, sim_call[1].team_b)
    /\ \A k \in DOMAIN results :
        /\ results[k].score[1] = team_pts(results[k].box, sim_call[1].team_a)
        /\ results[k].score[2] = team_pts(results[k].box, sim_call[1].team_b)

\* the count a stat update holds for a player, 0 without the key
updated(updates, p, stat) ==
    IF <<name_of(p), stat>> \in DOMAIN updates THEN updates[<<name_of(p), stat>>] ELSE 0

\* C7: a possession in which the shooter misses a two-point attempt and
\* draws a foul credits the shooter with 2 free-throw attempts, and with as
\* many free throws made and as many points as free throws went in.
C7_FoulOnMissCreditsFreeThrows ==
    game # <<>> /\ game[1].last # <<>> =>
        LET l == game[1].last[1]
        IN  l.ev.drew_foul /\ ~l.ev.made /\ ~l.ev.is_three =>
                /\ updated(l.updates, l.ev.shooter, "fta") = 2
                /\ updated(l.updates, l.ev.shooter, "ftm") = l.ev.ft_makes
                /\ updated(l.updates, l.ev.shooter, "pts") = l.ev.ft_makes

\* the step is a pass of the loop of simulate_game
Played == game # <<>> /\ game' # <<>> /\ game'[1].i = game[1].i + 1

\* C14: a possession that ends in a turnover scores 0 points and returns no
\* stat update, so it leaves the box score of every player and the scores of
\* both teams unchanged; the turnover draw is made before any shooter is
\* chosen (it is the first and only draw of the possession).
C14_TurnoverChangesNothing ==
    [][Played /\ game'[1].last[1].ev.turnover =>
            /\ game'[1].last[1].points = 0
            /\ game'[1].last[1].updates = NoStats
            /\ game'[1].box = game[1].box
            /\ game'[1].score_a = game[1].score_a
            /\ game'[1].score_b = game[1].score_b
            /\ game'[1].last[1].ev.shooter = None
            /\ rng' = random_next(rng)]_vars

\* A possession has just ended in a turnover, in a game in which points were
\* scored and box score entries made before.
C14_Witness ==
    /\ game # <<>> /\ game[1].last # <<>>
    /\ game[1].last[1].ev.turnover
    /\ game[1].box # NoBox
    /\ game[1].score_a > 0 /\ game[1].score_b > 0

\* the rebounds a stat update credits: its keys of stat orb or drb
rebounds(updates) == {k \in DOMAIN updates : k[2] \in {"orb", "drb"}}

\* the names of the five players of a lineup
names(lineup) == {name_of(p) : p \in Range(all_players(lineup))}

\* the lineup on offense in the last possession, and the one defending
last_offense == IF game[1].last[1].off = "Team A" THEN sim_call[1].team_a ELSE sim_call[1].team_b
last_defense == IF game[1].last[1].off = "Team A" THEN sim_call[1].team_b ELSE sim_call[1].team_a

\* C15: a rebound is credited only after a missed shot: a possession whose
\* initial shot is missed and that does not end with made free throws
\* credits exactly one rebound, an offensive rebound (orb) to a player of
\* the team on offense or a defensive rebound (drb) to a player of the
\* defending team, never both; no other possession credits a rebound.
C15_OneReboundAfterMiss ==
    game # <<>> /\ game[1].last # <<>> =>
        LET l == game[1].last[1]
            missed == ~l.ev.turnover /\ ~l.ev.made
        IN  IF missed /\ l.ev.ft_makes = 0
            THEN /\ Cardinality(rebounds(l.updates)) = 1
                 /\ \A k \in rebounds(l.updates) :
                        /\ l.updates[k] = 1
                        /\ k[2] = "orb" => k[1] \in names(last_offense)
                        /\ k[2] = "drb" => k[1] \in names(last_defense)
            ELSE rebounds(l.updates) = {}

\* A two-point shot was missed with a foul drawn, both free throws were
\* missed too, and a rebound was credited.
C15_Witness ==
    /\ game # <<>> /\ game[1].last # <<>>
    /\ game[1].last[1].ev.drew_foul /\ ~game[1].last[1].ev.made
    /\ game[1].last[1].ev.ft_makes = 0
    /\ rebounds(game[1].last[1].updates) # {}


====
